---- MODULE Spec2Model ----
(***************************************************************************)
(* Model of the BlockValidator monitor (src/main.js).                      *)
(*                                                                         *)
(* One BlockValidator object: the rolling epoch counters (epochStats),     *)
(* the validator cache, the in-memory record store (data), the file        *)
(* validator_data.json, the websocket, and the handleNewBlock invocations  *)
(* that are suspended at an await.  A step of the model is one run of      *)
(* JavaScript between two awaits: the event loop runs such a piece to      *)
(* completion before anything else runs.                                   *)
(*                                                                         *)
(* Strings are sequences of one-character strings.  Addresses are scaled   *)
(* from 40 hex digits to 2.  NaN, undefined and JSON null are sentinels.   *)
(***************************************************************************)
EXTENDS Integers, Sequences, FiniteSets, TLC

\* ---------------------------------------------------------------- bounds
\* Number of websocket messages the feed delivers in one run.
MaxEvents == 2

\* ------------------------------------------------------- JavaScript values
\* parseInt's result when no digit can be parsed.
NaN == -1
\* What JSON.stringify writes for NaN.
Null == -2
\* A property that the message does not carry.
Undefined == <<"undefined">>

JsSub(a, b) == IF a = NaN \/ b = NaN THEN NaN ELSE a - b
JsAdd(a, b) == IF a = NaN \/ b = NaN THEN NaN ELSE a + b
JsMod(a, b) == IF a = NaN \/ b = NaN THEN NaN ELSE a % b

Lower(c) ==
  CASE c = "A" -> "a" [] c = "B" -> "b" [] c = "C" -> "c"
    [] c = "D" -> "d" [] c = "E" -> "e" [] c = "F" -> "f"
    [] OTHER -> c

\* String.prototype.toLowerCase
ToLowerCase(s) == [i \in 1..Len(s) |-> Lower(s[i])]

\* Value of one hexadecimal digit, -1 for any other character.
HexVal(c) ==
  CASE c = "0" -> 0 [] c = "1" -> 1 [] c = "2" -> 2 [] c = "3" -> 3
    [] c = "4" -> 4 [] c = "5" -> 5 [] c = "6" -> 6 [] c = "7" -> 7
    [] c = "8" -> 8 [] c = "9" -> 9
    [] Lower(c) = "a" -> 10 [] Lower(c) = "b" -> 11 [] Lower(c) = "c" -> 12
    [] Lower(c) = "d" -> 13 [] Lower(c) = "e" -> 14 [] Lower(c) = "f" -> 15
    [] OTHER -> -1

RECURSIVE HexDigits(_, _, _)
\* Reads the longest run of hex digits of s from index i on; acc is the value
\* read so far, NaN while no digit has been read.
HexDigits(s, i, acc) ==
  IF i > Len(s) \/ HexVal(s[i]) = -1
  THEN acc
  ELSE HexDigits(s, i + 1, (IF acc = NaN THEN 0 ELSE acc) * 16 + HexVal(s[i]))

\* parseInt(s, 16): an optional 0x prefix, then the leading hex digits.
ParseInt16(s) ==
  IF Len(s) >= 2 /\ s[1] = "0" /\ Lower(s[2]) = "x"
  THEN HexDigits(s, 3, NaN)
  ELSE HexDigits(s, 1, NaN)

\* The last offset of needle in hay instead of the first.
IndexOf_Last(hay, needle) ==
  LET hits == {i \in 0..(Len(hay) - Len(needle)) :
                 SubSeq(hay, i + 1, i + Len(needle)) = needle}
  IN IF hits = {} THEN -1 ELSE CHOOSE i \in hits : \A j \in hits : i >= j

\* String.prototype.indexOf: first 0-based offset of needle in hay, else -1.
IndexOf(hay, needle) ==
  LET hits == {i \in 0..(Len(hay) - Len(needle)) :
                 SubSeq(hay, i + 1, i + Len(needle)) = needle}
  IN IF hits = {} THEN -1 ELSE CHOOSE i \in hits : \A j \in hits : i <= j

\* String.prototype.slice(2)
Slice2(s) == SubSeq(s, 3, Len(s))

\* ------------------------------------------------------------ configuration
EpochLength == 200
SaveEvery == 10

V1 == <<"0", "x", "a", "b">>
V2 == <<"0", "x", "c", "d">>
V3 == <<"0", "x", "e", "f">>

\* config.club48Validators (scaled to two addresses of two hex digits)
club48Validators == <<V1, V2>>

\* ------------------------------------------------------------------ inputs
\* Answers of contract.getValidators(), in checksum (mixed) case.
Directory ==
  { << <<"0", "x", "A", "b">>, <<"0", "x", "C", "d">>, <<"0", "x", "e", "F">> >> }

\* extraData of a boundary block: cd at offset 4 and ab at offset 6.
BlobTwo == <<"0", "x", "0", "0", "c", "d", "a", "b">>
\* upper-case digits: EF at offset 4.
BlobUpper == <<"0", "x", "0", "0", "E", "F">>
BlobNone == <<"0", "x", "0", "0">>

N5 == <<"0", "x", "5">>
N200 == <<"0", "x", "c", "8">>
N201 == <<"0", "x", "c", "9">>
N210 == <<"0", "x", "d", "2">>
N400 == <<"0", "x", "1", "9", "0">>
NBad == <<"z", "z">>

Header(number, miner, extraData) ==
  [number |-> number, miner |-> miner, extraData |-> extraData]

\* The newHeads results the feed can deliver: boundary blocks with a marker
\* blob and without one, blocks inside an epoch from cohort and other miners
\* (one in upper case), a block below the first boundary, a number that is
\* not hexadecimal, a header without miner and a message without number.
Headers ==
  { Header(N200, V1, BlobTwo),
    Header(N400, V3, BlobUpper),
    Header(N400, V1, Undefined),
    Header(N201, <<"0", "x", "C", "D">>, BlobNone),
    Header(N210, V1, BlobNone),
    Header(N5, V3, BlobNone),
    Header(NBad, V1, BlobNone),
    Header(N201, Undefined, BlobNone),
    Header(Undefined, V1, BlobNone) }

\* --------------------------------------------------------------- the store
EmptyData == [epochs |-> <<>>, blocks |-> <<>>]

\* A validator_data.json left by an earlier run.
PriorData ==
  [epochs |-> << [epochRange |-> <<0, 200>>, validationRate |-> 0,
                  club48Blocks |-> 0, totalBlocks |-> 1,
                  validatorsInExtraData |-> 0, validatorOrder |-> <<>>,
                  extraData |-> BlobNone] >>,
   blocks |-> <<>>]

VARIABLES
  epochStats,      \* this.epochStats
  validatorCache,  \* this.validatorCache
  data,            \* this.data
  file,            \* validator_data.json: <<>> when absent, else <<content>>
  ws,              \* this.ws and its connection state
  pcStart,         \* position of start()
  pcLoad,          \* position of loadExistingData()
  pending,         \* handleNewBlock invocations suspended at an await
  delivered,       \* number of messages received so far
  head             \* number of the block the feed announced last, for a
                   \* feed that announces the chain's blocks in order; 0
                   \* when the feed's order is left open

vars == <<epochStats, validatorCache, data, file, ws, pcStart, pcLoad,
          pending, delivered, head>>

\* ------------------------------------------------- pieces of handleNewBlock
\* The start block is recomputed for every block.
InitStartBlock_Always(stats, blockNumber) ==
  [stats EXCEPT
     !.startBlock = JsSub(blockNumber, JsMod(blockNumber, EpochLength))]

\* "Initialize epoch stats if needed"
InitStartBlock(stats, blockNumber) ==
  IF stats.startBlock = 0
  THEN [stats EXCEPT
          !.startBlock = JsSub(blockNumber, JsMod(blockNumber, EpochLength))]
  ELSE stats

\* config.club48Validators.map(addr => addr.toLowerCase()).includes(miner)
IsClub48(miner) ==
  \E k \in 1..Len(club48Validators) : ToLowerCase(club48Validators[k]) = miner

\* A cohort block is counted as a cohort block only.
CountBlock_CohortOnly(stats, miner) ==
  [stats EXCEPT !.totalBlocks = IF IsClub48(miner) THEN @ ELSE @ + 1,
                !.club48Blocks = IF IsClub48(miner) THEN @ + 1 ELSE @]

\* totalBlocks++, and club48Blocks++ for a cohort miner
CountBlock(stats, miner) ==
  [stats EXCEPT !.totalBlocks = @ + 1,
                !.club48Blocks = IF IsClub48(miner) THEN @ + 1 ELSE @]

\* `${startBlock}-${startBlock + 200}` as the pair of numbers it prints
EpochKey(startBlock) == <<startBlock, JsAdd(startBlock, EpochLength)>>

\* if (!this.data.blocks[currentEpoch]) this.data.blocks[currentEpoch] = []
EnsureEpoch(d, key) ==
  IF key \in DOMAIN d.blocks
  THEN d
  ELSE [d EXCEPT !.blocks = @ @@ (key :> <<>>)]

\* blockNumber % 200 === 0
IsBoundary(blockNumber) == JsMod(blockNumber, EpochLength) = 0

\* ((club48Blocks / totalBlocks) * 100).toFixed(2), in hundredths of a percent
Percentage(stats) ==
  (2 * 10000 * stats.club48Blocks + stats.totalBlocks)
     \div (2 * stats.totalBlocks)

\* The for loop over the validators: one entry per validator whose address,
\* without 0x, occurs in the lower-cased extraData.
RECURSIVE FoundValidators(_, _, _)
FoundValidators(extraData, validators, k) ==
  IF k > Len(validators)
  THEN <<>>
  ELSE LET validator == ToLowerCase(validators[k])
           position == IndexOf(ToLowerCase(extraData), Slice2(validator))
           rest == FoundValidators(extraData, validators, k + 1)
       IN IF position # -1
          THEN <<[address |-> validator, position |-> position]>> \o rest
          ELSE rest

\* Inserts e after the entries whose position is not larger (stable).
RECURSIVE InsertByPosition(_, _)
InsertByPosition(sorted, e) ==
  IF sorted = <<>>
  THEN <<e>>
  ELSE IF Head(sorted).position <= e.position
       THEN <<Head(sorted)>> \o InsertByPosition(Tail(sorted), e)
       ELSE <<e>> \o sorted

\* foundValidators.sort((a, b) => a.position - b.position)
RECURSIVE SortByPosition(_)
SortByPosition(found) ==
  IF found = <<>>
  THEN <<>>
  ELSE InsertByPosition(SortByPosition(SubSeq(found, 1, Len(found) - 1)),
                        found[Len(found)])

\* The marker decode of a boundary block.
Decode(extraData, validators) ==
  SortByPosition(FoundValidators(extraData, validators, 1))

\* extraData.toLowerCase() throws when the header has no extraData; it is
\* evaluated once per validator, so an empty validator list never throws.
DecodeThrows(extraData, validators) ==
  extraData = Undefined /\ validators # <<>>

\* The object pushed on this.data.epochs.
EpochRecord(blockNumber, percentage, stats, foundValidators, extraData) ==
  [epochRange |-> <<JsSub(blockNumber, EpochLength), blockNumber>>,
   validationRate |-> percentage,
   club48Blocks |-> stats.club48Blocks,
   totalBlocks |-> stats.totalBlocks,
   validatorsInExtraData |-> Len(foundValidators),
   validatorOrder |-> foundValidators,
   extraData |-> extraData]

\* The reset counts the boundary block into the new window.
ResetStats_CountsBoundary(blockNumber) ==
  [startBlock |-> blockNumber, club48Blocks |-> 0, totalBlocks |-> 1]

\* The reset keeps the counters.
ResetStats_KeepsCounts(blockNumber) ==
  [startBlock |-> blockNumber, club48Blocks |-> epochStats.club48Blocks,
   totalBlocks |-> epochStats.totalBlocks]

\* "Reset stats for next epoch"
ResetStats(blockNumber) ==
  [startBlock |-> blockNumber, club48Blocks |-> 0, totalBlocks |-> 0]

\* The offset recorded for the miner instead of its index.
FindIndex_Offset(ordering, miner) ==
  LET hits == {k \in 1..Len(ordering) : ToLowerCase(ordering[k].address) = miner}
  IN IF hits = {} THEN -1
     ELSE ordering[CHOOSE k \in hits : \A j \in hits : k <= j].position

\* A miner that is not in the ordering is reported at index 0.
FindIndex_AbsentIsFirst(ordering, miner) ==
  LET hits == {k \in 1..Len(ordering) : ToLowerCase(ordering[k].address) = miner}
  IN IF hits = {} THEN 0
     ELSE (CHOOSE k \in hits : \A j \in hits : k <= j) - 1

\* validatorFromExtraDatas.findIndex(v => v.address.toLowerCase() === miner)
FindIndex(ordering, miner) ==
  LET hits == {k \in 1..Len(ordering) : ToLowerCase(ordering[k].address) = miner}
  IN IF hits = {} THEN -1
     ELSE (CHOOSE k \in hits : \A j \in hits : k <= j) - 1

\* The object pushed on this.data.blocks[currentEpoch].
BlockRecord(blockNumber, miner, extraDataIndex) ==
  [blockNumber |-> blockNumber,
   miner |-> miner,
   extraDataPosition |-> extraDataIndex,
   isClub48 |-> IsClub48(miner)]

\* blockNumber % 10 === 0
IsSaveBlock(blockNumber) == JsMod(blockNumber, SaveEvery) = 0

\* ------------------------------------------------------ updateValidatorList
\* A failed lookup empties the held set.
UpdateValidatorList_ClearsOnError(cache, ok, answer) ==
  [cache EXCEPT !.validators = IF ok THEN answer ELSE <<>>]

\* The cache after getValidators() answered (ok) or threw (caught, logged).
UpdateValidatorList(cache, ok, answer) ==
  IF ok THEN [cache EXCEPT !.validators = answer] ELSE cache

\* ------------------------------------------------------------ JSON on disk
JsonNumber(x) == IF x = NaN THEN Null ELSE x

\* JSON.parse(JSON.stringify(d)): NaN is written as null; keys are strings
\* and keep their text.
JsonStringify(d) ==
  [epochs |-> d.epochs,
   blocks |-> [key \in DOMAIN d.blocks |->
                 [k \in 1..Len(d.blocks[key]) |->
                    [d.blocks[key][k] EXCEPT !.blockNumber = JsonNumber(@)]]]]

\* JSON.parse of the file's text
JsonParse(text) == text

\* -------------------------------------------------------------------- state
\* After `new BlockValidator()` and the call of start(): the constructor has
\* set the fields and called loadExistingData(), which reads the file when
\* it exists (existing); start() awaits its first updateValidatorList().
Constructed(existing) ==
  /\ epochStats = [startBlock |-> 0, club48Blocks |-> 0, totalBlocks |-> 0]
  /\ validatorCache = [validators |-> <<>>, validatorFromExtraDatas |-> <<>>,
                       lastUpdateBlock |-> 0]
  /\ data = EmptyData
  /\ file = existing
  /\ ws = "null"
  /\ pcStart = "updateValidatorList"
  /\ pcLoad = IF existing = <<>> THEN "done" ELSE "readFile"
  /\ pending = <<>>
  /\ delivered = 0

\* A start in a directory without validator_data.json.
Init == Constructed(<<>>) /\ head = 0

\* A start in a directory where an earlier run left validator_data.json.
InitLoad == Constructed(<<JsonStringify(PriorData)>>) /\ head = 0

Remove(seq, i) == SubSeq(seq, 1, i - 1) \o SubSeq(seq, i + 1, Len(seq))

\* A handleNewBlock invocation suspended at an await.  logged is what the
\* "Club48 Validation Rate" line printed; emitted counts the records this
\* invocation has pushed; lookupFailed tells that its updateValidatorList()
\* logged "Error updating validator list".
Invocation(pc, blockNumber, miner, extraData, percentage, logged, snapshot, emitted) ==
  [pc |-> pc, blockNumber |-> blockNumber, miner |-> miner,
   extraData |-> extraData, percentage |-> percentage, logged |-> logged,
   snapshot |-> snapshot, emitted |-> emitted, lookupFailed |-> FALSE]

\* ----------------------------------------------------------------- actions
\* loadExistingData resumes after readFile: this.data = JSON.parse(fileData),
\* or the error is caught and logged.
loadExistingData(ok) ==
  /\ pcLoad = "readFile"
  /\ pcStart # "exited"
  /\ pcLoad' = "done"
  /\ data' = IF ok THEN JsonParse(file[1]) ELSE data
  /\ UNCHANGED <<epochStats, validatorCache, file, ws, pcStart, pending,
                 delivered, head>>

\* start() resumes after its updateValidatorList() and calls
\* connectWebSocket(), which creates the socket.
start(ok, answer) ==
  /\ pcStart = "updateValidatorList"
  /\ validatorCache' = UpdateValidatorList(validatorCache, ok, answer)
  /\ pcStart' = "done"
  /\ ws' = "connecting"
  /\ UNCHANGED <<epochStats, data, file, pcLoad, pending, delivered, head>>

\* start() resumes after its updateValidatorList() and connectWebSocket()
\* throws (new WebSocket rejects config.wsUrl, e.g. when WSS is not set): the
\* catch of start() logs and calls process.exit(1).
startExits(ok, answer) ==
  /\ pcStart = "updateValidatorList"
  /\ validatorCache' = UpdateValidatorList(validatorCache, ok, answer)
  /\ pcStart' = "exited"
  /\ UNCHANGED <<epochStats, data, file, ws, pcLoad, pending, delivered, head>>

\* ws "open": the subscription request is sent.
wsOpen ==
  /\ ws = "connecting"
  /\ ws' = "open"
  /\ UNCHANGED <<epochStats, validatorCache, data, file, pcStart, pcLoad,
                 pending, delivered, head>>

\* ws "close" (after an "error", which only logs, or without one): the
\* reconnect timer is set.
wsClose ==
  /\ ws \in {"connecting", "open"}
  /\ ws' = "closed"
  /\ UNCHANGED <<epochStats, validatorCache, data, file, pcStart, pcLoad,
                 pending, delivered, head>>

\* The reconnect starts over with a fresh window and no ordering.
connectWebSocket_FreshState ==
  /\ ws = "closed"
  /\ ws' = "connecting"
  /\ epochStats' = [startBlock |-> 0, club48Blocks |-> 0, totalBlocks |-> 0]
  /\ validatorCache' = [validatorCache EXCEPT !.validatorFromExtraDatas = <<>>]
  /\ UNCHANGED <<data, file, pcStart, pcLoad, pending, delivered, head>>

\* The 5 second timer fires: connectWebSocket() creates a new socket.
connectWebSocket ==
  /\ ws = "closed"
  /\ ws' = "connecting"
  /\ UNCHANGED <<epochStats, validatorCache, data, file, pcStart, pcLoad,
                 pending, delivered, head>>

\* The synchronous part of handleNewBlock(blockHeader), up to its first await
\* or its end.  The header has a number; a header without miner throws at
\* blockHeader.miner.toLowerCase() before anything is changed.
handleNewBlock(blockHeader) ==
  IF blockHeader.miner = Undefined
  THEN UNCHANGED <<epochStats, validatorCache, data, file, pending>>
  ELSE
    LET blockNumber == ParseInt16(blockHeader.number)
        miner == ToLowerCase(blockHeader.miner)
        stats == CountBlock(InitStartBlock(epochStats, blockNumber), miner)
        currentEpoch == EpochKey(stats.startBlock)
        data1 == EnsureEpoch(data, currentEpoch)
    IN IF IsBoundary(blockNumber)
       THEN /\ epochStats' = stats
            /\ data' = data1
            /\ pending' = Append(pending,
                 Invocation("updateValidatorList", blockNumber, miner,
                            blockHeader.extraData, Percentage(stats),
                            [club48Blocks |-> stats.club48Blocks,
                             totalBlocks |-> stats.totalBlocks],
                            EmptyData, 0))
            /\ UNCHANGED <<validatorCache, file>>
       ELSE LET extraDataIndex ==
                  FindIndex(validatorCache.validatorFromExtraDatas, miner)
                data2 == [data1 EXCEPT !.blocks[currentEpoch] =
                            Append(@, BlockRecord(blockNumber, miner,
                                                  extraDataIndex))]
            IN /\ epochStats' = stats
               /\ data' = IF extraDataIndex # -1 THEN data2 ELSE data1
               /\ pending' =
                    IF extraDataIndex # -1 /\ IsSaveBlock(blockNumber)
                    THEN Append(pending,
                           Invocation("saveBlock", blockNumber, miner,
                                      blockHeader.extraData, 0,
                                      [club48Blocks |-> 0, totalBlocks |-> 0],
                                      JsonStringify(data2), 1))
                    ELSE pending
               /\ UNCHANGED <<validatorCache, file>>

\* ws "message": a message without params.result.number is ignored; any
\* other is handed to handleNewBlock, whose exceptions are caught and logged.
\* The listener is not awaited by the socket: the next message is delivered
\* while earlier invocations are still suspended.
wsMessage(blockHeader) ==
  /\ ws = "open"
  /\ delivered < MaxEvents
  /\ delivered' = delivered + 1
  /\ IF blockHeader.number = Undefined
     THEN UNCHANGED <<epochStats, validatorCache, data, file, pending>>
     ELSE handleNewBlock(blockHeader)
  /\ UNCHANGED <<ws, pcStart, pcLoad, head>>

\* The decode of a boundary is added to the ordering held before.
refreshed_KeepsOldOrdering(i, ok, answer) ==
  /\ i \in 1..Len(pending)
  /\ pending[i].pc = "updateValidatorList"
  /\ LET inv == pending[i]
         cache == UpdateValidatorList(validatorCache, ok, answer)
         foundValidators == Decode(inv.extraData, cache.validators)
         data1 == [data EXCEPT !.epochs =
                     Append(@, EpochRecord(inv.blockNumber, inv.percentage,
                                           epochStats, foundValidators,
                                           inv.extraData))]
     IN IF DecodeThrows(inv.extraData, cache.validators)
        THEN /\ validatorCache' = cache
             /\ pending' = Remove(pending, i)
             /\ UNCHANGED data
        ELSE /\ validatorCache' =
                  [cache EXCEPT !.validatorFromExtraDatas = @ \o foundValidators,
                                !.lastUpdateBlock = inv.blockNumber]
             /\ data' = data1
             /\ pending' = [pending EXCEPT ![i] =
                              [inv EXCEPT !.pc = "saveEpoch",
                                          !.snapshot = JsonStringify(data1),
                                          !.emitted = @ + 1,
                                          !.lookupFailed = ~ok]]
  /\ UNCHANGED <<epochStats, file, ws, pcStart, pcLoad, delivered, head>>

\* A boundary invocation resumes after `await this.updateValidatorList()`:
\* the decode, the epoch record, and the call of saveData(), which serialises
\* this.data and awaits the write.  A header without extraData throws in the
\* decode loop and ends the invocation there.
refreshed(i, ok, answer) ==
  /\ i \in 1..Len(pending)
  /\ pending[i].pc = "updateValidatorList"
  /\ LET inv == pending[i]
         cache == UpdateValidatorList(validatorCache, ok, answer)
         foundValidators == Decode(inv.extraData, cache.validators)
         data1 == [data EXCEPT !.epochs =
                     Append(@, EpochRecord(inv.blockNumber, inv.percentage,
                                           epochStats, foundValidators,
                                           inv.extraData))]
     IN IF DecodeThrows(inv.extraData, cache.validators)
        THEN /\ validatorCache' = cache
             /\ pending' = Remove(pending, i)
             /\ UNCHANGED data
        ELSE /\ validatorCache' =
                  [cache EXCEPT !.validatorFromExtraDatas = foundValidators,
                                !.lastUpdateBlock = inv.blockNumber]
             /\ data' = data1
             /\ pending' = [pending EXCEPT ![i] =
                              [inv EXCEPT !.pc = "saveEpoch",
                                          !.snapshot = JsonStringify(data1),
                                          !.emitted = @ + 1,
                                          !.lookupFailed = ~ok]]
  /\ UNCHANGED <<epochStats, file, ws, pcStart, pcLoad, delivered, head>>

\* A failed write ends the handler where it is: no reset follows.
saved_FailureSkipsReset(i, ok) ==
  /\ i \in 1..Len(pending)
  /\ pending[i].pc \in {"saveEpoch", "saveBlock"}
  /\ file' = IF ok THEN <<pending[i].snapshot>> ELSE file
  /\ epochStats' = IF pending[i].pc = "saveEpoch" /\ ok
                   THEN ResetStats(pending[i].blockNumber)
                   ELSE epochStats
  /\ pending' = Remove(pending, i)
  /\ UNCHANGED <<validatorCache, data, ws, pcStart, pcLoad, delivered, head>>

\* An invocation resumes after `await this.saveData()`: the file holds the
\* serialised data, or the write failed and the error was logged.  After the
\* epoch save the stats are reset; after the block save the handler ends.
saved(i, ok) ==
  /\ i \in 1..Len(pending)
  /\ pending[i].pc \in {"saveEpoch", "saveBlock"}
  /\ file' = IF ok THEN <<pending[i].snapshot>> ELSE file
  /\ epochStats' = IF pending[i].pc = "saveEpoch"
                   THEN ResetStats(pending[i].blockNumber)
                   ELSE epochStats
  /\ pending' = Remove(pending, i)
  /\ UNCHANGED <<validatorCache, data, ws, pcStart, pcLoad, delivered, head>>

Next ==
  \/ \E ok \in BOOLEAN, answer \in Directory : start(ok, answer)
  \/ \E ok \in BOOLEAN, answer \in Directory : startExits(ok, answer)
  \/ wsOpen
  \/ wsClose
  \/ connectWebSocket
  \/ \E blockHeader \in Headers : wsMessage(blockHeader)
  \/ \E i \in 1..Len(pending), ok \in BOOLEAN, answer \in Directory :
       refreshed(i, ok, answer)
  \/ \E i \in 1..Len(pending), ok \in BOOLEAN : saved(i, ok)

Spec == Init /\ [][Next]_vars

NextLoad ==
  \/ Next
  \/ \E ok \in BOOLEAN : loadExistingData(ok)

SpecLoad == InitLoad /\ [][NextLoad]_vars

\* ================================================================== claims
\* The last element of a non-empty sequence.
Last(seq) == seq[Len(seq)]

\* The step appends exactly one record to data.epochs.
PushesEpochRecord ==
  /\ Len(data'.epochs) = Len(data.epochs) + 1
  /\ SubSeq(data'.epochs, 1, Len(data.epochs)) = data.epochs

\* ---------------------------------------------------------------------- C1
\* C1: block-header events are processed strictly one at a time: in no
\* reachable state are two handleNewBlock invocations in progress.
C1_OneInvocationAtATime == Len(pending) <= 1

\* ---------------------------------------------------------------------- C2
\* C2: the EpochRecord emitted for boundary block n reports as totalBlocks
\* and cohortBlocks the events counted in the window up to and including n
\* (what the window held when n was counted), and no event delivered after n.
C2_RecordCountsUpToBoundary ==
  [][\A i \in 1..Len(pending) : \A ok \in BOOLEAN, answer \in Directory :
       (refreshed(i, ok, answer) /\ PushesEpochRecord)
         => /\ Last(data'.epochs).totalBlocks = pending[i].logged.totalBlocks
            /\ Last(data'.epochs).club48Blocks = pending[i].logged.club48Blocks
    ]_vars

\* ---------------------------------------------------------------------- C3
\* C3: a boundary event (n mod 200 = 0) that carries its marker blob emits
\* exactly one EpochRecord, with epochRange [n-200, n], and when its handler
\* finishes the live window is {startBlock: n, totalBlocks: 0,
\* cohortBlocks: 0}; no other step, in particular no event with
\* n mod 200 # 0, emits an EpochRecord.
C3_OneEpochRecordPerBoundary ==
  [][/\ \A blockHeader \in Headers :
          wsMessage(blockHeader) => data'.epochs = data.epochs
     /\ \A i \in 1..Len(pending) :
          /\ pending[i].pc = "updateValidatorList"
               => /\ pending[i].blockNumber % 200 = 0
                  /\ pending[i].emitted = 0
          /\ \A ok \in BOOLEAN, answer \in Directory :
               (refreshed(i, ok, answer) /\ pending[i].extraData # Undefined)
                 => /\ PushesEpochRecord
                    /\ Last(data'.epochs).epochRange =
                         <<pending[i].blockNumber - 200, pending[i].blockNumber>>
                    /\ Len(pending') = Len(pending)
                    /\ pending'[i].pc = "saveEpoch"
          /\ \A ok \in BOOLEAN :
               saved(i, ok)
                 => /\ data'.epochs = data.epochs
                    /\ pending[i].pc = "saveEpoch"
                         => /\ pending[i].emitted = 1
                            /\ epochStats' =
                                 [startBlock |-> pending[i].blockNumber,
                                  totalBlocks |-> 0, club48Blocks |-> 0]
    ]_vars

\* A boundary handler has finished: its record is stored and the window is
\* the fresh one that starts at the boundary.
C3_Witness ==
  /\ pending = <<>>
  /\ Len(data.epochs) = 1
  /\ data.epochs[1].epochRange = <<0, 200>>
  /\ epochStats = [startBlock |-> 200, totalBlocks |-> 0, club48Blocks |-> 0]

\* ---------------------------------------------------------------------- C4
\* C4: in every reachable state totalBlocks >= cohortBlocks >= 0.
C4_TotalAtLeastCohort ==
  /\ epochStats.totalBlocks >= epochStats.club48Blocks
  /\ epochStats.club48Blocks >= 0

\* Blocks of cohort and of other miners have been counted, and the feed is
\* disconnected.
C4_Witness ==
  /\ ws = "closed"
  /\ epochStats.club48Blocks >= 1
  /\ epochStats.totalBlocks > epochStats.club48Blocks

\* ---------------------------------------------------------------------- C5
\* The message carries a number and a miner: handleNewBlock gets past its
\* first two lines.
Handled(blockHeader) ==
  blockHeader.number # Undefined /\ blockHeader.miner # Undefined

\* C5 as claimed: once handleNewBlock has finished processing the event for
\* block n, whatever came before, startBlock equals n - (n mod 200).  (Stated
\* for numbers that parse and windows whose start is a number, so that a
\* violation does not rest on an unparsable header.)
C5_StartBlockIsEpochOfLastBlock ==
  [][epochStats.startBlock # NaN
       => /\ \A blockHeader \in Headers :
               LET n == ParseInt16(blockHeader.number)
               IN (/\ wsMessage(blockHeader)
                   /\ Handled(blockHeader)
                   /\ n # NaN
                   /\ Len(pending') = Len(pending))
                    => epochStats'.startBlock = n - (n % 200)
          /\ \A i \in 1..Len(pending) : \A ok \in BOOLEAN :
               saved(i, ok)
                 => epochStats'.startBlock =
                      pending[i].blockNumber - (pending[i].blockNumber % 200)
    ]_vars

\* C5 amended: once handleNewBlock has finished processing a boundary event
\* n, startBlock equals n; the arrival of an event for block n sets
\* startBlock to n - (n mod 200) (NaN when the number does not parse) only
\* when startBlock was 0, and no other step changes startBlock.
C5_StartBlockSetAtFirstEventAndBoundary ==
  [][/\ \A blockHeader \in Headers :
          LET n == ParseInt16(blockHeader.number)
          IN (wsMessage(blockHeader) /\ Handled(blockHeader))
               => epochStats'.startBlock =
                    IF epochStats.startBlock = 0
                    THEN (IF n = NaN THEN NaN ELSE n - (n % 200))
                    ELSE epochStats.startBlock
     /\ \A i \in 1..Len(pending) :
          /\ \A ok \in BOOLEAN :
               saved(i, ok)
                 => epochStats'.startBlock =
                      IF pending[i].pc = "saveEpoch"
                      THEN pending[i].blockNumber
                      ELSE epochStats.startBlock
          /\ \A ok \in BOOLEAN, answer \in Directory :
               refreshed(i, ok, answer)
                 => epochStats'.startBlock = epochStats.startBlock
    ]_vars

\* A block of another epoch was processed after the window was set: its
\* record is stored under the window's key, outside the key's range, and the
\* window still starts where it did.
C5_Witness ==
  /\ pending = <<>>
  /\ epochStats.startBlock = 400
  /\ <<400, 600>> \in DOMAIN data.blocks
  /\ \E k \in 1..Len(data.blocks[<<400, 600>>]) :
       data.blocks[<<400, 600>>][k].blockNumber = 5

\* ---------------------------------------------------------------------- C6
\* C6: in every reachable state startBlock is a multiple of 200, whatever
\* events have been delivered.
C6_StartBlockMultipleOfEpochLength ==
  /\ epochStats.startBlock # NaN
  /\ epochStats.startBlock % 200 = 0

\* ---------------------------------------------------------------------- C7
\* The step appends exactly one record to data.blocks[key].
PushesBlockRecord(key) ==
  /\ key \in DOMAIN data'.blocks
  /\ Len(data'.blocks[key]) =
       (IF key \in DOMAIN data.blocks THEN Len(data.blocks[key]) ELSE 0) + 1

\* C7 as claimed: the BlockRecord of a non-boundary block has as position the
\* offset recorded for its miner in the active DecodedOrdering, and as
\* isCohortMember the miner's cohort membership.
C7_PositionIsRecordedOffset ==
  [][\A blockHeader \in Headers : \A key \in DOMAIN data'.blocks :
       (wsMessage(blockHeader) /\ PushesBlockRecord(key))
         => LET rec == Last(data'.blocks[key])
                ordering == validatorCache.validatorFromExtraDatas
            IN /\ \E k \in 1..Len(ordering) :
                    /\ ordering[k].address = rec.miner
                    /\ rec.extraDataPosition = ordering[k].position
               /\ rec.isClub48 = (rec.miner \in {V1, V2})
    ]_vars

\* C7 amended: the BlockRecord of a non-boundary block n mined by m has as
\* position the zero-based index of m's entry in the active DecodedOrdering
\* (its rank by offset, not the offset), and as isCohortMember m's cohort
\* membership.
C7_PositionIsIndexInOrdering ==
  [][\A blockHeader \in Headers : \A key \in DOMAIN data'.blocks :
       (wsMessage(blockHeader) /\ PushesBlockRecord(key))
         => LET rec == Last(data'.blocks[key])
                ordering == validatorCache.validatorFromExtraDatas
            IN /\ rec.blockNumber = ParseInt16(blockHeader.number)
               /\ rec.miner = ToLowerCase(blockHeader.miner)
               /\ rec.extraDataPosition + 1 \in 1..Len(ordering)
               /\ ordering[rec.extraDataPosition + 1].address = rec.miner
               /\ \A j \in 1..rec.extraDataPosition :
                    ordering[j].address # rec.miner
               /\ rec.isClub48 = (rec.miner \in {V1, V2})
    ]_vars

\* A record for a cohort miner whose identity is the second entry of the
\* ordering, at offset 6 of the marker blob: its position is 1.
C7_Witness ==
  /\ Len(validatorCache.validatorFromExtraDatas) = 2
  /\ validatorCache.validatorFromExtraDatas[2] =
       [address |-> V1, position |-> 6]
  /\ \E key \in DOMAIN data.blocks : \E k \in 1..Len(data.blocks[key]) :
       /\ data.blocks[key][k].miner = V1
       /\ data.blocks[key][k].extraDataPosition = 1
       /\ data.blocks[key][k].isClub48

\* ---------------------------------------------------------------------- C8
\* The number of records stored under key.
NumRecords(d, key) == IF key \in DOMAIN d.blocks THEN Len(d.blocks[key]) ELSE 0

\* The keys under which the step has stored a record.
KeysPushedTo == {key \in DOMAIN data'.blocks : PushesBlockRecord(key)}

\* The step leaves the BlockRecords of every key but those of grown alone.
BlockRecordsKept(grown) ==
  /\ DOMAIN data.blocks \subseteq DOMAIN data'.blocks
  /\ \A key \in DOMAIN data'.blocks \ grown :
       NumRecords(data', key) = NumRecords(data, key)

\* C8: an event adds a BlockRecord if and only if its block number is not a
\* multiple of 200 and its miner appears in the active DecodedOrdering; a
\* boundary event or an absent miner adds none, and no event adds more than
\* one record in total.
C8_BlockRecordIffInOrdering ==
  [][/\ \A blockHeader \in Headers :
          LET n == ParseInt16(blockHeader.number)
              ordering == validatorCache.validatorFromExtraDatas
              expected ==
                /\ Handled(blockHeader)
                /\ ~(n # NaN /\ n % 200 = 0)
                /\ \E k \in 1..Len(ordering) :
                     ordering[k].address = ToLowerCase(blockHeader.miner)
          IN wsMessage(blockHeader)
               => /\ Cardinality(KeysPushedTo) = (IF expected THEN 1 ELSE 0)
                  /\ BlockRecordsKept(KeysPushedTo)
                  /\ data'.epochs = data.epochs
     /\ \A i \in 1..Len(pending) :
          /\ pending[i].emitted <= 1
          /\ pending[i].pc = "saveBlock" => pending[i].emitted = 1
          /\ \A ok \in BOOLEAN, answer \in Directory :
               refreshed(i, ok, answer)
                 => /\ pending[i].emitted = 0
                    /\ BlockRecordsKept({})
                    /\ data'.epochs = data.epochs \/ PushesEpochRecord
          /\ \A ok \in BOOLEAN : saved(i, ok) => data' = data
    ]_vars

\* One event added a BlockRecord and another event none.
C8_Witness ==
  /\ delivered = 2
  /\ pending = <<>>
  /\ \E key \in DOMAIN data.blocks : Len(data.blocks[key]) = 1

\* ---------------------------------------------------------------------- C9
\* C9: when the directory lookup fails at a boundary, the held ValidatorSet
\* stays the one held before, the handler does not abort, an EpochRecord is
\* emitted whose ordering is decoded against that set, and the window is
\* then reset as usual.
C9_FailedRefreshKeepsSetAndEmits ==
  [][\A i \in 1..Len(pending) :
       /\ \A answer \in Directory :
            refreshed(i, FALSE, answer)
              => /\ validatorCache'.validators = validatorCache.validators
                 /\ pending[i].extraData # Undefined
                      => /\ PushesEpochRecord
                         /\ Last(data'.epochs).validatorOrder =
                              Decode(pending[i].extraData,
                                     validatorCache.validators)
                         /\ validatorCache'.validatorFromExtraDatas =
                              Last(data'.epochs).validatorOrder
                         /\ Len(pending') = Len(pending)
                         /\ pending'[i].pc = "saveEpoch"
                         /\ pending'[i].lookupFailed
       /\ \A ok \in BOOLEAN :
            (saved(i, ok) /\ pending[i].pc = "saveEpoch"
               /\ pending[i].lookupFailed)
              => epochStats' = [startBlock |-> pending[i].blockNumber,
                                totalBlocks |-> 0, club48Blocks |-> 0]
    ]_vars

\* A boundary handler whose lookup failed has emitted its record, decoded
\* against the set the start-up lookup had fetched.
C9_Witness ==
  /\ \E i \in 1..Len(pending) :
       /\ pending[i].pc = "saveEpoch"
       /\ pending[i].lookupFailed
  /\ validatorCache.validators # <<>>
  /\ data.epochs # <<>>
  /\ Last(data.epochs).validatorOrder # <<>>

\* --------------------------------------------------------------------- C10
\* A header that cannot be parsed: a number that is not hexadecimal, no
\* miner, or a boundary block without marker blob.
Malformed(blockHeader) ==
  /\ blockHeader.number # Undefined
  /\ \/ ParseInt16(blockHeader.number) = NaN
     \/ blockHeader.miner = Undefined
     \/ /\ ParseInt16(blockHeader.number) % 200 = 0
        /\ blockHeader.extraData = Undefined

\* C10: an event whose header cannot be parsed is dropped: the window, the
\* DecodedOrdering and the stored records are the same after it as before.
C10_MalformedEventDropped ==
  [][\A blockHeader \in Headers :
       (wsMessage(blockHeader) /\ Malformed(blockHeader))
         => /\ epochStats' = epochStats
            /\ validatorCache' = validatorCache
            /\ data' = data
            /\ pending' = pending
    ]_vars

\* --------------------------------------------------------------------- C11
\* C11: a feed disconnect followed by a reconnection changes nothing in the
\* aggregator: the close of the socket, the reconnect and the open of the new
\* socket each leave startBlock, totalBlocks, cohortBlocks and the active
\* DecodedOrdering as they were, at any point of an epoch and any number of
\* times.
C11_ReconnectKeepsAggregatorState ==
  [][(wsClose \/ connectWebSocket \/ wsOpen)
       => /\ epochStats' = epochStats
          /\ validatorCache'.validatorFromExtraDatas =
               validatorCache.validatorFromExtraDatas
    ]_vars

\* The feed was lost inside an epoch and the new socket is being connected:
\* the window holds its count and the ordering of the last boundary.
C11_Witness ==
  /\ ws = "connecting"
  /\ pending = <<>>
  /\ epochStats.startBlock = 200
  /\ epochStats.totalBlocks >= 1
  /\ validatorCache.validatorFromExtraDatas # <<>>

\* --------------------------------------------------------------------- C12
\* C12: when the validator directory cannot be reached on the first attempt
\* at startup, the process terminates: start() does not go on to open the
\* feed, so no socket exists and no reconnect can be scheduled.
C12_FailedBootstrapTerminates ==
  [][(\E answer \in Directory : start(FALSE, answer))
       => pcStart' = "exited" /\ ws' = "null"
    ]_vars

\* --------------------------------------------------------------------- C13
\* C13: a failed snapshot write, at an epoch boundary or on the 10 block
\* cadence, changes nothing but what a successful one changes, the file
\* excepted: the handler ends, after a boundary the window is reset to
\* {startBlock: n, 0, 0}, and the validator set, the DecodedOrdering and the
\* records in memory stay as they are, so later events are counted the same.
C13_FailedWriteKeepsAggregation ==
  [][\A i \in 1..Len(pending) :
       saved(i, FALSE)
         => /\ epochStats' =
                 IF pending[i].pc = "saveEpoch"
                 THEN [startBlock |-> pending[i].blockNumber,
                       club48Blocks |-> 0, totalBlocks |-> 0]
                 ELSE epochStats
            /\ pending' = Remove(pending, i)
            /\ validatorCache' = validatorCache
            /\ data' = data
            /\ file' = file
    ]_vars

\* Both writes failed (nothing is on disk): the one of the boundary 200 and
\* the one of block 210, which was counted in the window that the boundary
\* had reset and was recorded against the new ordering.
C13_Witness ==
  /\ file = <<>>
  /\ pending = <<>>
  /\ Len(data.epochs) = 1
  /\ epochStats = [startBlock |-> 200, club48Blocks |-> 1, totalBlocks |-> 1]
  /\ validatorCache.validatorFromExtraDatas # <<>>
  /\ <<200, 400>> \in DOMAIN data.blocks
  /\ \E k \in 1..Len(data.blocks[<<200, 400>>]) :
       data.blocks[<<200, 400>>][k].blockNumber = 210

\* --------------------------------------------------------------------- C14
\* seq is a prefix of longer
IsPrefix(seq, longer) ==
  /\ Len(seq) <= Len(longer)
  /\ \A k \in 1..Len(seq) : longer[k] = seq[k]

\* Every record of the store old is in the store new, unchanged and in place.
StoreGrows(old, new) ==
  /\ IsPrefix(old.epochs, new.epochs)
  /\ \A key \in DOMAIN old.blocks :
       old.blocks[key] # <<>>
         => key \in DOMAIN new.blocks
            /\ IsPrefix(old.blocks[key], new.blocks[key])

\* C14: the store is append-only: whatever the interleaving of the startup
\* load, the event handlers and the saves, no step removes or changes an
\* EpochRecord or a BlockRecord of the store in memory, and no write replaces
\* the file by one that lacks a record the file had.
C14_StoreOnlyGrows ==
  [][/\ StoreGrows(data, data')
     /\ (file # <<>> /\ file' # <<>>)
          => StoreGrows(JsonParse(file[1]), JsonParse(file'[1]))
    ]_vars

\* --------------------------------------------------------------------- C15
\* The marker decode over all small blobs and validator sets.
MaxBlobLen == 4

\* The characters of the blobs after their 0x: both cases occur.
BlobChars == {"a", "B", "c"}

\* extraData of the boundary block: 0x and up to MaxBlobLen characters.
Blobs ==
  {<<"0", "x">> \o b : b \in UNION {[1..n -> BlobChars] : n \in 0..MaxBlobLen}}

\* Addresses the directory can answer, in mixed case.
ValidatorPool ==
  {<<"0", "x", "A", "b">>, <<"0", "x", "b", "A">>, <<"0", "x", "B", "c">>}

\* Answers of contract.getValidators(): lists of distinct addresses.
ValidatorLists ==
  {s \in UNION {[1..n -> ValidatorPool] : n \in 0..Cardinality(ValidatorPool)} :
     \A i, j \in 1..Len(s) : i # j => s[i] # s[j]}

\* The first message of the feed is the boundary block 200 with the given
\* extraData.
wsMessageFirstBoundary(extraData) ==
  /\ delivered = 0
  /\ wsMessage(Header(N200, V1, extraData))

NextDecode ==
  \/ \E ok \in BOOLEAN, answer \in Directory : start(ok, answer)
  \/ wsOpen
  \/ \E extraData \in Blobs : wsMessageFirstBoundary(extraData)
  \/ \E i \in 1..Len(pending), ok \in BOOLEAN, answer \in ValidatorLists :
       refreshed(i, ok, answer)
  \/ \E i \in 1..Len(pending), ok \in BOOLEAN : saved(i, ok)

SpecDecode == Init /\ [][NextDecode]_vars

\* The offsets at which the identity of validator (without its 0x, in lower
\* case) occurs in markerBlob read in lower case.
Occurrences(markerBlob, validator) ==
  LET identity == SubSeq(ToLowerCase(validator), 3, Len(validator))
  IN {off \in 0..(Len(markerBlob) - Len(identity)) :
        \A c \in 1..Len(identity) : Lower(markerBlob[off + c]) = identity[c]}

\* pairs is what the contract of decode asks for markerBlob and validatorSet.
IsDecodeOf(pairs, markerBlob, validatorSet) ==
  /\ \A j \in 1..Len(validatorSet) :
       LET occ == Occurrences(markerBlob, validatorSet[j])
           mine == {k \in 1..Len(pairs) :
                      pairs[k].address = ToLowerCase(validatorSet[j])}
       IN IF occ = {}
          THEN mine = {}
          ELSE /\ Cardinality(mine) = 1
               /\ \A k \in mine :
                    /\ pairs[k].position \in occ
                    /\ \A off \in occ : pairs[k].position <= off
  /\ \A k \in 1..Len(pairs) :
       \E j \in 1..Len(validatorSet) :
         pairs[k].address = ToLowerCase(validatorSet[j])
  /\ \A k, l \in 1..Len(pairs) :
       k < l => pairs[k].position <= pairs[l].position

\* C15: the ordering decoded at a boundary holds exactly one pair for each
\* validator of the set whose identity (without 0x, case-insensitively)
\* occurs in the marker blob, at the first offset of its occurrence, no pair
\* for a validator whose identity does not occur, and is sorted ascending by
\* position.
C15_DecodeContract ==
  \A k \in 1..Len(data.epochs) :
    /\ IsDecodeOf(data.epochs[k].validatorOrder, data.epochs[k].extraData,
                  validatorCache.validators)
    /\ validatorCache.validatorFromExtraDatas = data.epochs[k].validatorOrder

\* The blob 0xaBaB decoded against <<0xbA, 0xAb, 0xBc>>: ab occurs twice and
\* is found at its first offset 2, ba at 3 comes second although it is first
\* in the set, bc does not occur.
C15_Witness ==
  /\ Len(data.epochs) = 1
  /\ data.epochs[1].extraData = <<"0", "x", "a", "B", "a", "B">>
  /\ validatorCache.validators =
       << <<"0", "x", "b", "A">>, <<"0", "x", "A", "b">>, <<"0", "x", "B", "c">> >>
  /\ validatorCache.validatorFromExtraDatas =
       << [address |-> <<"0", "x", "a", "b">>, position |-> 2],
          [address |-> <<"0", "x", "b", "a">>, position |-> 3] >>

\* --------------------------------------------------------------------- C16
\* The ordering decoded by the boundary handler that decoded last: the one
\* stored in the newest EpochRecord, empty while no boundary has decoded.
LatestDecode ==
  IF data.epochs = <<>> THEN <<>> ELSE Last(data.epochs).validatorOrder

\* The zero-based index of the first entry of ordering for miner, else -1.
RankOf(ordering, miner) ==
  LET hits == {k \in 1..Len(ordering) : ordering[k].address = miner}
  IN IF hits = {} THEN -1 ELSE (CHOOSE k \in hits : \A j \in hits : k <= j) - 1

C17_RecordKeyedByItsEpoch ==
  [][\A blockHeader \in Headers : \A key \in DOMAIN data'.blocks :
       LET n == ParseInt16(blockHeader.number)
       IN (wsMessage(blockHeader) /\ PushesBlockRecord(key) /\ n # NaN)
            => key = <<n - (n % 200), n - (n % 200) + 200>>
    ]_vars

\* --------------------------------------------------------------------- C18
\* C18: the initialisation of startBlock runs for the first event only: once
\* an event has been counted in the window, handling a non-boundary event,
\* be it a duplicate or out of order, leaves startBlock as it is.  (Stated
\* for block numbers that parse.)
C18_StartBlockInitialisedOnce ==
  [][\A blockHeader \in Headers :
       LET n == ParseInt16(blockHeader.number)
       IN (/\ wsMessage(blockHeader)
           /\ Handled(blockHeader)
           /\ n # NaN
           /\ ~IsBoundary(n)
           /\ epochStats.totalBlocks >= 1)
            => epochStats'.startBlock = epochStats.startBlock
    ]_vars

\* --------------------------------------------------------------------- C19
\* C19: every EpochRecord is consistent in itself: its validationRate (in
\* hundredths of a percent) is club48Blocks / totalBlocks * 100 of its own
\* club48Blocks and totalBlocks, rounded to two decimals.
C19_RateMatchesStoredCounts ==
  \A k \in 1..Len(data.epochs) :
    LET rec == data.epochs[k]
    IN /\ rec.totalBlocks >= 1
       /\ 2 * rec.totalBlocks * rec.validationRate
            <= 2 * 10000 * rec.club48Blocks + rec.totalBlocks
       /\ 2 * 10000 * rec.club48Blocks + rec.totalBlocks
            < 2 * rec.totalBlocks * (rec.validationRate + 1)

\* --------------------------------------------------------------------- C20
\* A feed that delivers consecutive blocks, each once, the next one only when
\* the handler of the one before has finished.
MaxSeqEvents == 402

\* The number of the first block the feed delivers.
FirstBlocks == {1, 150, 199, 200, 201}

HexChars ==
  <<"0", "1", "2", "3", "4", "5", "6", "7", "8", "9", "a", "b", "c", "d", "e", "f">>

\* The hexadecimal digits of n, most significant first.
RECURSIVE HexOf(_)
HexOf(n) ==
  IF n < 16
  THEN <<HexChars[n + 1]>>
  ELSE HexOf(n \div 16) \o <<HexChars[(n % 16) + 1]>>

\* The number field of a header as the node sends it: "0x" and the digits.
ToHex(n) == <<"0", "x">> \o HexOf(n)

\* The miner of block n: now and then a cohort validator named by the marker
\* blob, else a validator that is in neither.
MinerOf(n) ==
  CASE n % 50 = 10 -> V1
    [] n % 50 = 11 -> <<"0", "x", "C", "D">>
    [] OTHER -> V3

InitSeq ==
  /\ Constructed(<<>>)
  /\ head \in {b - 1 : b \in FirstBlocks}

\* ws "message" with the header of the next block, delivered when no handler
\* is in progress.
wsMessageInOrder ==
  /\ ws = "open"
  /\ pending = <<>>
  /\ delivered < MaxSeqEvents
  /\ head' = head + 1
  /\ delivered' = delivered + 1
  /\ handleNewBlock(Header(ToHex(head + 1), MinerOf(head + 1), BlobTwo))
  /\ UNCHANGED <<ws, pcStart, pcLoad>>

NextSeq ==
  \/ \E ok \in BOOLEAN, answer \in Directory : start(ok, answer)
  \/ wsOpen
  \/ wsMessageInOrder
  \/ \E i \in 1..Len(pending), ok \in BOOLEAN, answer \in Directory :
       refreshed(i, ok, answer)
  \/ \E i \in 1..Len(pending), ok \in BOOLEAN : saved(i, ok)

SpecSeq == InitSeq /\ [][NextSeq]_vars

\* C20: with consecutive block numbers delivered in increasing order, each
\* once and each handled to completion before the next, the first EpochRecord
\* has 1 <= totalBlocks <= 200 and every later one has totalBlocks = 200.
C20_FullWindowsAfterTheFirst ==
  \A k \in 1..Len(data.epochs) :
    IF k = 1
    THEN data.epochs[k].totalBlocks \in 1..200
    ELSE /\ data.epochs[k].totalBlocks = 200
         /\ data.epochs[k].epochRange[1] = data.epochs[k - 1].epochRange[2]

\* The feed started at block 199: the record of the boundary 200 counts two
\* blocks, and the boundaries 400 and 600 have emitted their records too.
C20_Witness ==
  /\ head = 600
  /\ pending = <<>>
  /\ Len(data.epochs) = 3
  /\ data.epochs[1].totalBlocks = 2
  /\ data.epochs[3].epochRange = <<400, 600>>
  /\ epochStats = [startBlock |-> 600, club48Blocks |-> 0, totalBlocks |-> 0]

====
